---- MODULE Spec2Model ----
(***************************************************************************)
(* Model of handleDatabase.py: the in-memory Table (construction with      *)
(* declared or inferred schema, copy, the merge operator <<, equality,     *)
(* schema export, CSV serialisation) and the Database mapping layer on     *)
(* top of an SQLite connection.                                            *)
(*                                                                         *)
(* Python objects have identity: Table objects live in `tables`, record    *)
(* dicts live in `heap`, and a Table's indexedContent maps keys to heap    *)
(* references, so that aliasing between tables is visible.                 *)
(***************************************************************************)
EXTENDS Integers, Sequences, FiniteSets, TLC

VARIABLES tables, heap, last, out, db, scope

vars == <<tables, heap, last, out, db, scope>>

(* ------------------------------------------------------------------ *)
(* Bounds                                                              *)
(* ------------------------------------------------------------------ *)
MaxRows == 2
MaxTables == 3

(* ------------------------------------------------------------------ *)
(* Python values: int/float, str, None, and the float NaN              *)
(* ------------------------------------------------------------------ *)
Num(n) == [k |-> "num", n |-> n, s |-> ""]
Txt(s) == [k |-> "txt", n |-> 0, s |-> s]
None == [k |-> "none", n |-> 0, s |-> ""]
NaN == [k |-> "nan", n |-> 0, s |-> ""]

\* ast.literal_eval on the text of a value: the number literals of the model
NumLiterals == ("0" :> 0) @@ ("1" :> 1) @@ ("7" :> 7)
IsNumLiteral(s) == s \in DOMAIN NumLiterals
\* what ast.literal_eval raises on one of the texts S that is no literal:
\* SyntaxError on the empty text, ValueError on a word
LiteralError(S) ==
    IF \E x \in S : ~IsNumLiteral(x) /\ x # "" THEN "ValueError" ELSE "SyntaxError"
\* str(n) as csv.writer emits a number
StrOfNum(n) == CHOOSE s \in DOMAIN NumLiterals : NumLiterals[s] = n

(* ------------------------------------------------------------------ *)
(* dict with insertion order: a sequence of [key, rid] entries         *)
(* ------------------------------------------------------------------ *)
HasKey(ic, key) == \E j \in 1..Len(ic) : ic[j].key = key
Lookup(ic, key) == ic[CHOOSE j \in 1..Len(ic) : ic[j].key = key].rid
SetKey(ic, key, rid) ==
    IF HasKey(ic, key)
    THEN [j \in 1..Len(ic) |-> IF ic[j].key = key THEN [key |-> key, rid |-> rid] ELSE ic[j]]
    ELSE Append(ic, [key |-> key, rid |-> rid])
Keys(ic) == {ic[j].key : j \in 1..Len(ic)}

(* ------------------------------------------------------------------ *)
(* Table                                                               *)
(* ------------------------------------------------------------------ *)
fields(t) == t.txtTypeFields \cup t.numTypeFields

\* Table.content: the list of record dicts, in storage order
content(M, tid) ==
    [j \in 1..Len(M.tables[tid].indexedContent) |->
        M.heap[M.tables[tid].indexedContent[j].rid]]

\* _addField on a Table value: a known field keeps its type
AddFieldWrong(t, field, isStr) ==
    IF isStr THEN [t EXCEPT !.txtTypeFields = @ \cup {field},
                            !.numTypeFields = @ \ {field}]
    ELSE [t EXCEPT !.numTypeFields = @ \cup {field},
                   !.txtTypeFields = @ \ {field}]
AddField(t, field, isStr) ==
    IF field \in fields(t) THEN t
    ELSE IF isStr THEN [t EXCEPT !.txtTypeFields = @ \cup {field}]
    ELSE [t EXCEPT !.numTypeFields = @ \cup {field}]

RECURSIVE AddFieldsOf(_, _, _)
AddFieldsOf(t, rec, todo) ==
    IF todo = {} THEN t
    ELSE LET f == CHOOSE x \in todo : TRUE
         IN AddFieldsOf(AddField(t, f, rec[f].k = "txt"), rec, todo \ {f})

\* self.indexedContent[row_index] = {} while a Table is constructed: the
\* place of the new dict. The dict it replaces, if any, was made by this
\* constructor and nothing else refers to it, so its place is taken over.
NewRecord(t, h, row_index) ==
    IF HasKey(t.indexedContent, row_index)
    THEN Lookup(t.indexedContent, row_index) ELSE Len(h) + 1

\* _readDataWithUnspecifiedFields, from dataset j on; t is the Table under
\* construction, h the heap
RECURSIVE ReadDataWithUnspecifiedFields(_, _, _, _)
ReadDataWithUnspecifiedFields(t, h, data, j) ==
    IF j > Len(data) THEN [err |-> "", t |-> t, h |-> h]
    ELSE LET dataset == data[j]
         IN IF t.indexField \notin DOMAIN dataset
            THEN [err |-> "KeyError", t |-> t, h |-> h]
            ELSE LET row_index == dataset[t.indexField]
                     kept == {f \in DOMAIN dataset : dataset[f] # None}
                     rec == [f \in kept |-> dataset[f]]
                     rid == NewRecord(t, h, row_index)
                     h1 == [n \in 1..Len(h) \cup {rid} |-> IF n = rid THEN rec ELSE h[n]]
                     t1 == [t EXCEPT !.indexedContent = SetKey(@, row_index, rid)]
                 IN ReadDataWithUnspecifiedFields(AddFieldsOf(t1, rec, kept), h1, data, j + 1)

\* _readDataWithSpecifiedFields, from dataset j on
RECURSIVE ReadDataWithSpecifiedFields(_, _, _, _)
ReadDataWithSpecifiedFields(t, h, data, j) ==
    IF j > Len(data) THEN [err |-> "", t |-> t, h |-> h]
    ELSE LET dataset == data[j]
         IN IF t.indexField \notin DOMAIN dataset
            THEN [err |-> "KeyError", t |-> t, h |-> h]
            ELSE LET row_index == dataset[t.indexField]
                     kept == {f \in DOMAIN dataset : dataset[f] # None /\ f \in fields(t)}
                     parsed == {f \in kept : dataset[f].k = "txt" /\ f \in t.numTypeFields}
                     rec == [f \in kept |->
                                IF f \in parsed /\ IsNumLiteral(dataset[f].s)
                                THEN Num(NumLiterals[dataset[f].s]) ELSE dataset[f]]
                     rid == NewRecord(t, h, row_index)
                     h1 == [n \in 1..Len(h) \cup {rid} |-> IF n = rid THEN rec ELSE h[n]]
                     t1 == [t EXCEPT !.indexedContent = SetKey(@, row_index, rid)]
                 IN IF \E f \in parsed : ~IsNumLiteral(dataset[f].s)
                    THEN [err |-> LiteralError({dataset[f].s : f \in parsed}), t |-> t, h |-> h]
                    ELSE ReadDataWithSpecifiedFields(t1, h1, data, j + 1)

\* Table.__init__ with a list of datasets as content: on success the new
\* Table is the last object of the result's tables
Table(M, indexField, txtTypeFields, numTypeFields, data) ==
    LET t0 == [indexField |-> indexField, txtTypeFields |-> txtTypeFields,
               numTypeFields |-> numTypeFields, indexedContent |-> <<>>]
        r == IF fields(t0) = {}
             THEN ReadDataWithUnspecifiedFields(t0, M.heap, data, 1)
             ELSE ReadDataWithSpecifiedFields(t0, M.heap, data, 1)
    IN IF fields(t0) # {} /\ indexField \notin fields(t0)
       THEN [err |-> "TableKeyError", m |-> M]
       ELSE IF r.err # "" THEN [err |-> r.err, m |-> M]
       ELSE [err |-> "", m |-> [tables |-> Append(M.tables, r.t), heap |-> r.h]]

\* Table.copy
copyAlias(M, tid) ==
    [err |-> "", m |-> [M EXCEPT !.tables = Append(@, M.tables[tid])]]
copy(M, tid) ==
    Table(M, M.tables[tid].indexField, M.tables[tid].txtTypeFields,
          M.tables[tid].numTypeFields, content(M, tid))

\* one pass of the inner loop body of __lshift__ (lines 159-164) for key i
\* and column order[c]; r is the result Table, b the right operand
RECURSIVE LshiftColumns(_, _, _, _, _, _)
LshiftColumns(M, r, b, i, order, c) ==
    IF c > Len(order) THEN [err |-> "", m |-> M]
    ELSE LET columnToUpdate == order[c]
             isStr == columnToUpdate \in M.tables[b].txtTypeFields
             M1 == [M EXCEPT !.tables[r] = AddField(@, columnToUpdate, isStr)]
             src == Lookup(M1.tables[b].indexedContent, i)
         IN IF HasKey(M1.tables[r].indexedContent, i)
            THEN IF columnToUpdate \notin DOMAIN M1.heap[src]
                 THEN [err |-> "KeyError", m |-> M1]
                 ELSE LET dst == Lookup(M1.tables[r].indexedContent, i)
                          old == M1.heap[dst]
                          new == [f \in DOMAIN old \cup {columnToUpdate} |->
                                     IF f = columnToUpdate
                                     THEN M1.heap[src][columnToUpdate] ELSE old[f]]
                      IN LshiftColumns([M1 EXCEPT !.heap[dst] = new], r, b, i, order, c + 1)
            ELSE LshiftColumns(
                     [M1 EXCEPT !.tables[r].indexedContent = SetKey(@, i, src)],
                     r, b, i, order, c + 1)

\* the outer loop of __lshift__ (line 157) over the keys of the right
\* operand, from its j-th key on
RECURSIVE LshiftRows(_, _, _, _, _, _)
LshiftRows(M, r, b, keys, order, j) ==
    IF j > Len(keys) THEN [err |-> "", m |-> M]
    ELSE LET step == LshiftColumns(M, r, b, keys[j], order, 1)
         IN IF step.err # "" THEN step
            ELSE LshiftRows(step.m, r, b, keys, order, j + 1)

\* Table.__lshift__: a << b. order is the iteration order of the set
\* b.fields, which the language leaves unspecified. On success the result
\* Table is the last object of the result's tables.
Lshift(M, a, b, order) ==
    LET c == copy(M, a)
        r == Len(c.m.tables)
        ic == M.tables[b].indexedContent
        keys == [j \in 1..Len(ic) |-> ic[j].key]
    IN IF c.err # "" THEN c
       ELSE LshiftRows(c.m, r, b, keys, order, 1)

\* Table.contentOf
contentOf(M, tid, keyvalue, columnname) ==
    LET ic == M.tables[tid].indexedContent
    IN IF HasKey(ic, keyvalue) /\ columnname \in DOMAIN M.heap[Lookup(ic, keyvalue)]
       THEN M.heap[Lookup(ic, keyvalue)][columnname]
       ELSE None

\* sorted(content, key=itemgetter(indexField)): a stable insertion sort; the
\* index values of the model are numbers
RECURSIVE InsertSorted(_, _, _)
InsertSorted(sorted, rec, indexField) ==
    IF sorted = <<>> THEN <<rec>>
    ELSE IF sorted[Len(sorted)][indexField].n <= rec[indexField].n
         THEN Append(sorted, rec)
         ELSE Append(InsertSorted(SubSeq(sorted, 1, Len(sorted) - 1), rec, indexField),
                     sorted[Len(sorted)])
RECURSIVE SortedBy(_, _, _)
SortedBy(recs, indexField, n) ==
    IF n = 0 THEN <<>>
    ELSE InsertSorted(SortedBy(recs, indexField, n - 1), recs[n], indexField)

\* Table.__eq__ of two Tables whose records all carry the index field
Eq(M, t1, t2) ==
    LET c1 == content(M, t1)
        c2 == content(M, t2)
        ix == M.tables[t1].indexField
    IN /\ SortedBy(c1, ix, Len(c1)) = SortedBy(c2, ix, Len(c2))
       /\ M.tables[t1].indexField = M.tables[t2].indexField
       /\ M.tables[t1].txtTypeFields = M.tables[t2].txtTypeFields
       /\ M.tables[t1].numTypeFields = M.tables[t2].numTypeFields

\* Table.getFields: field -> declared type string
getFieldsNoKey(t) ==
    [field \in fields(t) |-> IF field \in t.txtTypeFields THEN "text" ELSE "numeric"]
getFields(t) ==
    [field \in fields(t) |->
        (IF field \in t.txtTypeFields THEN "text" ELSE "numeric")
        \o (IF field = t.indexField THEN " primary key" ELSE "")]

(* ------------------------------------------------------------------ *)
(* Delimited text: a sequence of lines, a line a sequence of cells,    *)
(* a cell the text between two delimiters and whether it is quoted     *)
(* ------------------------------------------------------------------ *)
Cell(quoted, text) == [quoted |-> quoted, text |-> text]

\* sorted() on the field names of the model
FieldRank == ("amount" :> 1) @@ ("id" :> 2) @@ ("name" :> 3) @@ ("new type" :> 4)
RECURSIVE SortedFields(_)
SortedFields(S) ==
    IF S = {} THEN <<>>
    ELSE LET f == CHOOSE x \in S : \A y \in S : FieldRank[x] <= FieldRank[y]
         IN <<f>> \o SortedFields(S \ {f})

\* csv.writer with QUOTE_NONNUMERIC: numbers bare, everything else quoted
WriteCell(v) == IF v.k = "num" THEN Cell(FALSE, StrOfNum(v.n)) ELSE Cell(TRUE, v.s)
\* Table.toCsv: the header, then one line per record; a field the record
\* lacks is written as DictWriter's restval '', a field outside fieldnames
\* raises ValueError
toCsv(M, tid) ==
    LET t == M.tables[tid]
        fieldnames == <<t.indexField>> \o SortedFields(fields(t) \ {t.indexField})
        names == {fieldnames[j] : j \in 1..Len(fieldnames)}
        rows == content(M, tid)
        line(rec) == [j \in 1..Len(fieldnames) |->
                        IF fieldnames[j] \in DOMAIN rec
                        THEN WriteCell(rec[fieldnames[j]]) ELSE WriteCell(Txt(""))]
    IN IF \E j \in 1..Len(rows) : ~(DOMAIN rows[j] \subseteq names)
       THEN [err |-> "ValueError", text |-> <<>>]
       ELSE [err |-> "",
             text |-> <<[j \in 1..Len(fieldnames) |-> Cell(TRUE, fieldnames[j])]>>
                      \o [j \in 1..Len(rows) |-> line(rows[j])]]

\* csv.DictReader over the lines of a text: every cell comes back as a str,
\* keyed by the header; empty lines are skipped
DictReader(text) ==
    IF text = <<>> THEN <<>>
    ELSE LET header == text[1]
             body == SelectSeq(Tail(text), LAMBDA l : l # <<>>)
         IN [j \in 1..Len(body) |->
               [f \in {header[c].text : c \in 1..Len(header)} |->
                   LET c == CHOOSE c \in 1..Len(header) : header[c].text = f
                   IN IF c <= Len(body[j]) THEN Txt(body[j][c].text) ELSE None]]

(* ------------------------------------------------------------------ *)
(* Database: the sqlite3 connection and the statements run on it       *)
(* ------------------------------------------------------------------ *)
\* str.isalnum() on the characters of the model's identifiers
Alnum == {"a", "b", "c", "d", "e", "f", "g", "h", "i", "j", "k", "l", "m",
          "n", "o", "p", "q", "r", "s", "t", "u", "v", "w", "x", "y", "z",
          "0", "1", "2", "3", "4", "5", "6", "7", "8", "9"}
\* the characters of the identifiers of the model
Chars == ("food" :> <<"f", "o", "o", "d">>)
      @@ ("fo od" :> <<"f", "o", " ", "o", "d">>)
      @@ ("id" :> <<"i", "d">>)
      @@ ("amount" :> <<"a", "m", "o", "u", "n", "t">>)
      @@ ("name" :> <<"n", "a", "m", "e">>)
      @@ ("new type" :> <<"n", "e", "w", " ", "t", "y", "p", "e">>)

\* SQLIdentifier.__repr__: the value, or DatabaseInputError
SQLIdentifier(value) ==
    IF \A j \in 1..Len(Chars[value]) : Chars[value][j] \in Alnum \/ Chars[value][j] = "_"
    THEN [err |-> "", value |-> value]
    ELSE [err |-> "DatabaseInputError", value |-> value]
AllValid(names) == \A n \in names : SQLIdentifier(n).err = ""

PrimaryKeyTypes == {"text primary key", "numeric primary key"}
TextTypes == {"text", "text primary key"}

\* cursor.execute ran a statement of this kind on this table
Log(D, kind, tablename) ==
    [D EXCEPT !.stmts = Append(@, [kind |-> kind, table |-> tablename])]
\* sqlite3 opens a transaction before the first INSERT; DDL runs without one
Begin(D) ==
    IF D.txn.open THEN D ELSE [D EXCEPT !.txn = [open |-> TRUE, saved |-> D.store]]
\* connection.commit() and connection.rollback()
Commit(D) ==
    [D EXCEPT !.commits = @ + 1, !.txn = [open |-> FALSE, saved |-> <<>>]]
Rollback(D) ==
    [D EXCEPT !.rollbacks = @ + 1,
              !.store = IF D.txn.open THEN D.txn.saved ELSE @,
              !.txn = [open |-> FALSE, saved |-> <<>>]]

\* the value SQLite stores in a column of the declared type: TEXT affinity
\* turns a number into text, NUMERIC affinity turns a number literal into a
\* number; NaN is bound as NULL
Affinity(type, v) ==
    IF v.k = "nan" THEN None
    ELSE IF type \in TextTypes
         THEN (IF v.k = "num" THEN Txt(StrOfNum(v.n)) ELSE v)
         ELSE (IF v.k = "txt" /\ IsNumLiteral(v.s) THEN Num(NumLiterals[v.s]) ELSE v)

\* Database._dropTable
dropTable(D, tablename) ==
    IF SQLIdentifier(tablename).err # ""
    THEN [err |-> SQLIdentifier(tablename).err, d |-> D]
    ELSE [err |-> "",
          d |-> Log([D EXCEPT !.store = [n \in DOMAIN @ \ {tablename} |-> @[n]]],
                    "drop", tablename)]

\* Database._hasTable
hasTable(D, tablename) ==
    IF SQLIdentifier(tablename).err # ""
    THEN [err |-> SQLIdentifier(tablename).err, d |-> D, has |-> FALSE]
    ELSE [err |-> "", d |-> Log(D, "select", "sqlite_master"),
          has |-> tablename \in DOMAIN D.store]

\* Database._createTable; a table with no column is a syntax error
createTable(D, tablename, fieldtypes) ==
    LET h == hasTable(D, tablename)
    IN IF h.err # "" THEN [err |-> h.err, d |-> h.d]
       ELSE IF h.has THEN [err |-> "DatabaseWriteError", d |-> h.d]
       ELSE IF ~AllValid(DOMAIN fieldtypes) THEN [err |-> "DatabaseInputError", d |-> h.d]
       ELSE IF DOMAIN fieldtypes = {} THEN [err |-> "OperationalError", d |-> h.d]
       ELSE [err |-> "",
             d |-> Log([h.d EXCEPT !.store =
                           [n \in DOMAIN @ \cup {tablename} |->
                               IF n = tablename
                               THEN [cols |-> fieldtypes, rows |-> <<>>] ELSE @[n]]],
                       "create", tablename)]

\* Database._insertDatasetIntoTable. The field list is the text of a Python
\* tuple: for a dataset of one field it is "(id,)", a syntax error.
insertDatasetIntoTable(D, tablename, dataset) ==
    IF ~AllValid(DOMAIN dataset \cup {tablename})
    THEN [err |-> "DatabaseInputError", d |-> D]
    ELSE IF Cardinality(DOMAIN dataset) <= 1 \/ tablename \notin DOMAIN D.store
    THEN [err |-> "OperationalError", d |-> D]
    ELSE LET cols == D.store[tablename].cols
             rows == D.store[tablename].rows
             row == [c \in DOMAIN cols |->
                        IF c \in DOMAIN dataset THEN Affinity(cols[c], dataset[c]) ELSE None]
         IN IF ~(DOMAIN dataset \subseteq DOMAIN cols)
            THEN [err |-> "OperationalError", d |-> D]
            ELSE IF \E j \in 1..Len(rows), c \in DOMAIN cols :
                       cols[c] \in PrimaryKeyTypes /\ row[c] # None /\ rows[j][c] = row[c]
            THEN [err |-> "IntegrityError", d |-> Begin(D)]
            ELSE [err |-> "",
                  d |-> Log([Begin(D) EXCEPT !.store[tablename].rows = Append(@, row)],
                            "insert", tablename)]

\* the loop of Database.__setitem__ (lines 55-56), from dataset j on
RECURSIVE InsertAll(_, _, _, _)
InsertAll(D, tablename, data, j) ==
    IF j > Len(data) THEN [err |-> "", d |-> D]
    ELSE LET r == insertDatasetIntoTable(D, tablename, data[j])
         IN IF r.err # "" THEN r ELSE InsertAll(r.d, tablename, data, j + 1)

\* Database.__setitem__: db[tablename] = tables[tid]
setitem(D, M, tablename, tid) ==
    LET dropped == dropTable(D, tablename)
        created == createTable(dropped.d, tablename, getFields(M.tables[tid]))
    IN IF dropped.err # "" THEN dropped
       ELSE IF created.err # "" THEN created
       ELSE InsertAll(created.d, tablename, content(M, tid), 1)

\* pandas.read_sql(...).to_dict(orient='records'): a NULL comes back as NaN
\* in a column whose other values are all numbers, and as None otherwise
ReadSql(tbl) ==
    LET numeric(c) == /\ \E j \in 1..Len(tbl.rows) : tbl.rows[j][c] # None
                      /\ \A j \in 1..Len(tbl.rows) :
                             tbl.rows[j][c] = None \/ tbl.rows[j][c].k = "num"
    IN [j \in 1..Len(tbl.rows) |->
          [c \in DOMAIN tbl.cols |->
              IF tbl.rows[j][c] = None /\ numeric(c) THEN NaN ELSE tbl.rows[j][c]]]

\* Database._getTableinfo and Database._getPrimaryKeyOfTable: the column
\* that pragma table_info flags pk = 1, None when there is none
getPrimaryKeyOfTable(D, tablename) ==
    LET h == hasTable(D, tablename)
    IN IF h.err # "" THEN [err |-> h.err, d |-> h.d, pk |-> "None"]
       ELSE IF ~h.has THEN [err |-> "DatabaseReadError", d |-> h.d, pk |-> "None"]
       ELSE LET cols == D.store[tablename].cols
                keys == {c \in DOMAIN cols : cols[c] \in PrimaryKeyTypes}
            IN [err |-> "", d |-> Log(h.d, "pragma", tablename),
                pk |-> IF keys = {} THEN "None" ELSE CHOOSE c \in keys : TRUE]

\* Database._getTable
getTable(D, tablename) ==
    LET h == hasTable(D, tablename)
    IN IF h.err # "" THEN [err |-> h.err, d |-> h.d, records |-> <<>>]
       ELSE IF ~h.has THEN [err |-> "DatabaseReadError", d |-> h.d, records |-> <<>>]
       ELSE [err |-> "", d |-> Log(h.d, "select", tablename),
             records |-> ReadSql(D.store[tablename])]

\* Database.__getitem__: on success the Table read is the last object of
\* the result's tables
getitem(D, M, tablename) ==
    LET key == getPrimaryKeyOfTable(D, tablename)
        got == getTable(key.d, tablename)
        made == Table(M, key.pk, {}, {}, got.records)
    IN IF key.err # "" THEN [err |-> key.err, d |-> key.d, m |-> M]
       ELSE IF got.err # "" THEN [err |-> got.err, d |-> got.d, m |-> M]
       ELSE [err |-> made.err, d |-> got.d, m |-> made.m]

\* the Database object of the session, and Database.__enter__ on it
TheDb == 1
enter(self) == self

\* Database.__exit__ with exceptionValue "" for None; an exception object
\* is true in a condition. ret is the value returned to the with statement.
exitSwallow(D, exceptionValue) ==
    IF exceptionValue # ""
    THEN [d |-> Rollback(D), ret |-> TRUE]
    ELSE [d |-> Commit(D), ret |-> TRUE]
exit(D, exceptionValue) ==
    IF exceptionValue # ""
    THEN [d |-> Rollback(D), ret |-> FALSE]
    ELSE [d |-> Commit(D), ret |-> TRUE]

\* Database.__del__
del(D) == [D EXCEPT !.closed = @ + 1]

(* ------------------------------------------------------------------ *)
(* Inputs                                                              *)
(* ------------------------------------------------------------------ *)
IndexField == "id"
IdValues == {Num(0), Num(1)}
AmountValues == {None, Num(7), Txt("7"), Txt("a")}
Datasets ==
    {[f \in {"id", "amount"} |-> IF f = "id" THEN i ELSE a] :
        i \in IdValues, a \in AmountValues}
RECURSIVE SeqsUpTo(_, _)
SeqsUpTo(S, n) ==
    IF n = 0 THEN {<<>>}
    ELSE LET shorter == SeqsUpTo(S, n - 1)
         IN shorter \cup {Append(q, x) : q \in {p \in shorter : Len(p) = n - 1}, x \in S}
Contents == SeqsUpTo(Datasets, MaxRows)
\* declared schemas: none (inferred), or the schema of the tests
Schemas == {[txt |-> {}, num |-> {}],
            [txt |-> {}, num |-> {"id", "amount"}]}

Orders(S) == {q \in [1..Cardinality(S) -> S] : \A x \in S : \E j \in DOMAIN q : q[j] = x}

Empty == [tables |-> <<>>, heap |-> <<>>]
\* no Database has been constructed
NoDb == [store |-> <<>>, txn |-> [open |-> FALSE, saved |-> <<>>], stmts |-> <<>>,
         commits |-> 0, rollbacks |-> 0, closed |-> 0]
NoScope == [pc |-> "none", handle |-> 0, exc |-> "", propagated |-> "", ops |-> 0,
            written |-> <<>>]
NoOp == [op |-> "init", a |-> 0, b |-> 0, err |-> "", name |-> ""]

(* ------------------------------------------------------------------ *)
(* Spec: two constructed Tables and the merges of a session            *)
(* ------------------------------------------------------------------ *)
Init ==
    \E s1 \in Schemas, c1 \in Contents :
        \E r1 \in {Table(Empty, IndexField, s1.txt, s1.num, c1)} :
           /\ r1.err = ""
           /\ tables = r1.m.tables
           /\ heap = r1.m.heap
           /\ last = NoOp
           /\ out = 0
           /\ db = NoDb
           /\ scope = NoScope

\* the second Table of the session is constructed
NewTable(schema, data) ==
    /\ Len(tables) = 1
    /\ \E res \in {Table([tables |-> tables, heap |-> heap],
                         IndexField, schema.txt, schema.num, data)} :
        /\ res.err = ""
        /\ tables' = res.m.tables
        /\ heap' = res.m.heap
    /\ UNCHANGED <<last, out, db, scope>>

\* c = tables[a] << tables[b]. When << raises, the half-built result is
\* unreachable and is dropped; writes to objects that existed stay.
Merge(a, b) ==
    /\ 2 <= Len(tables) /\ Len(tables) < MaxTables
    /\ \E order \in Orders(fields(tables[b])) :
        \E res \in {Lshift([tables |-> tables, heap |-> heap], a, b, order)} :
            /\ tables' = IF res.err = "" THEN res.m.tables
                          ELSE SubSeq(res.m.tables, 1, Len(tables))
            /\ heap' = IF res.err = "" THEN res.m.heap
                        ELSE SubSeq(res.m.heap, 1, Len(heap))
            /\ last' = [op |-> "merge", a |-> a, b |-> b, err |-> res.err, name |-> ""]
            /\ out' = 0
            /\ UNCHANGED <<db, scope>>

Next ==
    \/ \E schema \in Schemas, data \in Contents : NewTable(schema, data)
    \/ \E a \in 1..Len(tables), b \in 1..Len(tables) : Merge(a, b)

Spec == Init /\ [][Next]_vars

(* ------------------------------------------------------------------ *)
(* SpecTable: one constructed Table and the calls on a single Table    *)
(* ------------------------------------------------------------------ *)
InitTable ==
    \E s1 \in Schemas, c1 \in Contents :
        LET r1 == Table(Empty, IndexField, s1.txt, s1.num, c1)
        IN /\ r1.err = ""
           /\ tables = r1.m.tables
           /\ heap = r1.m.heap
           /\ last = NoOp
           /\ out = 0
           /\ db = NoDb
           /\ scope = NoScope

\* out = tables[a].getFields()
GetFields(a) ==
    /\ out' = getFields(tables[a])
    /\ last' = [op |-> "getFields", a |-> a, b |-> 0, err |-> "", name |-> ""]
    /\ UNCHANGED <<tables, heap, db, scope>>

\* out = tables[a].toCsv(io.StringIO()).getvalue()
ToCsv(a) ==
    /\ \E res \in {toCsv([tables |-> tables, heap |-> heap], a)} :
        /\ out' = res.text
        /\ last' = [op |-> "toCsv", a |-> a, b |-> 0, err |-> res.err, name |-> ""]
    /\ UNCHANGED <<tables, heap, db, scope>>

\* Table(indexField, txtTypeFields, numTypeFields, content=out) with the
\* schema of the Table the text was written from
FromCsv ==
    /\ last.op = "toCsv" /\ last.err = ""
    /\ Len(tables) < MaxTables
    /\ \E res \in {Table([tables |-> tables, heap |-> heap],
                         tables[last.a].indexField, tables[last.a].txtTypeFields,
                         tables[last.a].numTypeFields, DictReader(out))} :
        /\ tables' = res.m.tables
        /\ heap' = res.m.heap
        /\ last' = [op |-> "fromCsv", a |-> last.a, b |-> 0, err |-> res.err, name |-> ""]
    /\ UNCHANGED <<out, db, scope>>

NextTable ==
    \/ \E a \in 1..Len(tables) : GetFields(a)
    \/ \E a \in 1..Len(tables) : ToCsv(a)
    \/ FromCsv

SpecTable == InitTable /\ [][NextTable]_vars

(* ------------------------------------------------------------------ *)
(* SpecDb: a with-block on a Database, reading and writing Tables      *)
(* ------------------------------------------------------------------ *)
MaxOps == 2
TableNames == {"food", "fo od"}
DbDatasets ==
    Datasets \cup {[f \in {"id", "new type"} |-> IF f = "id" THEN i ELSE Txt("a")] :
                     i \in IdValues}
DbContents == SeqsUpTo(DbDatasets, MaxRows)
\* declared schemas: none, the numeric one, and one with a text field that
\* no dataset carries
DbSchemas == Schemas \cup {[txt |-> {"name"}, num |-> {"id", "amount"}]}
\* the store the file holds when the Database is opened: nothing, or a
\* table food written by an earlier session
StoredFood ==
    [cols |-> ("id" :> "numeric primary key") @@ ("amount" :> "numeric"),
     rows |-> <<("id" :> Num(1)) @@ ("amount" :> Num(7))>>]
Stores == {<<>>, [n \in {"food"} |-> StoredFood]}

InitDb ==
    \E s1 \in DbSchemas, c1 \in DbContents, st \in Stores :
        LET r1 == Table(Empty, IndexField, s1.txt, s1.num, c1)
        IN /\ r1.err = ""
           /\ tables = r1.m.tables
           /\ heap = r1.m.heap
           /\ last = NoOp
           /\ out = 0
           /\ db = [NoDb EXCEPT !.store = st]
           /\ scope = [NoScope EXCEPT !.pc = "new", !.written = [n \in TableNames |-> 0]]

\* with Database(...) as db:
Enter ==
    /\ scope.pc = "new"
    /\ scope' = [scope EXCEPT !.pc = "in", !.handle = enter(TheDb)]
    /\ UNCHANGED <<tables, heap, last, out, db>>

\* db[name] = tables[t] in the body of the with-block
SetItem(name, t) ==
    /\ scope.pc = "in" /\ scope.handle = TheDb /\ scope.ops < MaxOps
    /\ \E res \in {setitem([db EXCEPT !.stmts = <<>>],
                           [tables |-> tables, heap |-> heap], name, t)} :
        /\ db' = res.d
        /\ last' = [op |-> "setitem", a |-> t, b |-> 0, err |-> res.err, name |-> name]
        /\ scope' = [scope EXCEPT !.ops = @ + 1,
                                  !.written[name] = IF res.err = "" THEN t
                                                    ELSE IF res.d.store = db.store THEN @
                                                    ELSE 0]
    /\ UNCHANGED <<tables, heap, out>>

\* db[name] in the body of the with-block; last.a is the Table assigned to
\* that name earlier in the session, 0 when there is none
GetItem(name) ==
    /\ scope.pc = "in" /\ scope.handle = TheDb /\ scope.ops < MaxOps
    /\ Len(tables) < MaxTables
    /\ \E res \in {getitem([db EXCEPT !.stmts = <<>>],
                           [tables |-> tables, heap |-> heap], name)} :
        /\ db' = res.d
        /\ tables' = res.m.tables
        /\ heap' = res.m.heap
        /\ last' = [op |-> "getitem", a |-> scope.written[name], b |-> 0,
                    err |-> res.err, name |-> name]
    /\ scope' = [scope EXCEPT !.ops = @ + 1]
    /\ UNCHANGED out

\* the with-block ends: normally (e = "", also after the body caught the
\* error of a call), with the error of the last call, or with an exception
\* of the body's own; the with statement re-raises e unless __exit__
\* returned a true value
Leave(e) ==
    /\ scope.pc = "in"
    /\ e \in {"", "KeyboardInterrupt"} \cup {last.err}
    /\ \E res \in {exit(db, e)} :
        /\ db' = res.d
        /\ scope' = [scope EXCEPT !.pc = "out", !.exc = e,
                                  !.propagated = IF e # "" /\ ~res.ret THEN e ELSE ""]
    /\ UNCHANGED <<tables, heap, last, out>>

\* the Database object is collected. __exit__ does not close, and the name
\* bound by `with ... as db` still refers to the object after the block, so
\* this is a later step than Leave, if it happens at all.
Del ==
    /\ scope.pc = "out"
    /\ db' = del(db)
    /\ scope' = [scope EXCEPT !.pc = "collected"]
    /\ UNCHANGED <<tables, heap, last, out>>

Errors == {"", "KeyboardInterrupt", "DatabaseInputError", "DatabaseReadError",
           "DatabaseWriteError", "OperationalError", "IntegrityError", "KeyError"}

NextDb ==
    \/ Enter
    \/ \E name \in TableNames, t \in 1..Len(tables) : SetItem(name, t)
    \/ \E name \in TableNames : GetItem(name)
    \/ \E e \in Errors : Leave(e)
    \/ Del

SpecDb == InitDb /\ [][NextDb]_vars

(* ------------------------------------------------------------------ *)
(* Properties of the merge                                             *)
(* ------------------------------------------------------------------ *)
Now == [tables |-> tables, heap |-> heap]
Merged == last.op = "merge" /\ last.err = ""
\* the operands and the result of the last merge
A == last.a
B == last.b
C == Len(tables)
RecordAt(tid, i) == heap[Lookup(tables[tid].indexedContent, i)]
KeysOf(tid) == Keys(tables[tid].indexedContent)
IsEmptyTable(tid) == fields(tables[tid]) = {} /\ tables[tid].indexedContent = <<>>

\* C1: after C = A << B, at every key i present in A and B, every field of
\* B's schema has B's value in C, and every field of A's record outside
\* B's schema has A's value in C.
C1_PatchExistingKeys ==
    Merged =>
        \A i \in KeysOf(A) \cap KeysOf(B) :
            /\ \A f \in fields(tables[B]) :
                   contentOf(Now, C, i, f) = contentOf(Now, B, i, f)
            /\ \A g \in DOMAIN RecordAt(A, i) \ fields(tables[B]) :
                   contentOf(Now, C, i, g) = contentOf(Now, A, i, g)

\* C2: after C = A << B, at every key i present in B only, C's record is
\* exactly B's record, and every record of A is present in C unchanged.
C2_InstallNewKeys ==
    Merged =>
        /\ \A i \in KeysOf(B) \ KeysOf(A) :
               i \in KeysOf(C) /\ RecordAt(C, i) = RecordAt(B, i)
        /\ \A i \in KeysOf(A) \ KeysOf(B) :
               i \in KeysOf(C) /\ RecordAt(C, i) = RecordAt(A, i)

C4_MergeWithEmptyIsIdentity ==
    (last.op = "merge" /\ IsEmptyTable(B)) => (last.err = "" /\ Eq(Now, C, A))

\* C5 as stated: the field set of A << B is A.fields \cup B.fields, with A's
\* fields typed as in A and the new ones as in B.
C5_SchemaUnion ==
    Merged =>
        /\ tables[A].txtTypeFields \subseteq tables[C].txtTypeFields
        /\ tables[A].numTypeFields \subseteq tables[C].numTypeFields
        /\ fields(tables[C]) = fields(tables[A]) \cup fields(tables[B])
\* C5 amended: A's fields keep their type; when B holds at least one record
\* the field set is the union and a field new to A has B's type for it; when
\* B holds no record the schema of A << B is A's schema.
C5_SchemaUnionWhenBHasRecords ==
    Merged =>
        /\ tables[A].txtTypeFields \subseteq tables[C].txtTypeFields
        /\ tables[A].numTypeFields \subseteq tables[C].numTypeFields
        /\ tables[B].indexedContent # <<>> =>
               /\ fields(tables[C]) = fields(tables[A]) \cup fields(tables[B])
               /\ \A f \in fields(tables[B]) \ fields(tables[A]) :
                      f \in tables[C].txtTypeFields <=> f \in tables[B].txtTypeFields
        /\ tables[B].indexedContent = <<>> =>
               /\ tables[C].txtTypeFields = tables[A].txtTypeFields
               /\ tables[C].numTypeFields = tables[A].numTypeFields
\* B brings a text field that is new to A, and A has a field of its own
C5_Witness ==
    /\ Merged /\ tables[B].indexedContent # <<>>
    /\ (tables[B].txtTypeFields \ fields(tables[A])) # {}
    /\ fields(tables[A]) # {}

\* C12: when some record of B lacks a field of B's schema, A << B returns
\* without raising, and in the result's record at that key the lacking
\* field appears only if A's record at that key has it.
C12_MergeSparseRecords ==
    (/\ last.op = "merge"
     /\ \E i \in KeysOf(B) : fields(tables[B]) \ DOMAIN RecordAt(B, i) # {}) =>
        /\ last.err = ""
        /\ \A i \in KeysOf(B) : \A f \in fields(tables[B]) \ DOMAIN RecordAt(B, i) :
               f \in DOMAIN RecordAt(C, i)
                   <=> (i \in KeysOf(A) /\ f \in DOMAIN RecordAt(A, i))

(* ------------------------------------------------------------------ *)
(* Properties of the calls on a single Table                           *)
(* ------------------------------------------------------------------ *)
\* C6: a Table with a non-empty schema, written with toCsv and read back
\* with the same index field and field sets, is equal to the original.
C6_CsvRoundTrip ==
    (last.op = "fromCsv" /\ fields(tables[last.a]) # {}) =>
        (last.err = "" /\ Eq(Now, Len(tables), last.a))

\* C10 as stated: the export of every Table marks exactly one field with
\* the primary-key suffix, the index field, and maps every other field to
\* 'text' or 'numeric'.
C10_ExactlyOnePrimaryKey ==
    last.op = "getFields" =>
        /\ {f \in DOMAIN out : out[f] \in PrimaryKeyTypes} = {tables[last.a].indexField}
        /\ \A f \in DOMAIN out \ {tables[last.a].indexField} :
               out[f] = (IF f \in tables[last.a].txtTypeFields THEN "text" ELSE "numeric")
\* C10 amended: the export has exactly the fields of the schema; when the
\* schema contains the index field, that field and no other carries the
\* primary-key suffix; when it does not (a Table with no declared schema
\* and no records) no field is marked; every other field maps to exactly
\* 'text' or 'numeric'.
C10_PrimaryKeyWhenIndexInSchema ==
    last.op = "getFields" =>
        /\ DOMAIN out = fields(tables[last.a])
        /\ {f \in DOMAIN out : out[f] \in PrimaryKeyTypes}
               = {tables[last.a].indexField} \cap fields(tables[last.a])
        /\ \A f \in DOMAIN out \ {tables[last.a].indexField} :
               out[f] = (IF f \in tables[last.a].txtTypeFields THEN "text" ELSE "numeric")
\* the export of a Table with a text field and a numeric index field
C10_Witness ==
    /\ last.op = "getFields"
    /\ tables[last.a].txtTypeFields # {}
    /\ tables[last.a].indexField \in tables[last.a].numTypeFields
    /\ out[tables[last.a].indexField] = "numeric primary key"

(* ------------------------------------------------------------------ *)
(* Properties of the Database                                          *)
(* ------------------------------------------------------------------ *)
\* C7: with valid identifiers, after db[name] = T succeeded, db[name] read
\* in the same session returns a Table equal to T.
C7_DatabaseRoundTrip ==
    (/\ last.op = "getitem" /\ last.a # 0
     /\ AllValid(fields(tables[last.a]) \cup {last.name})) =>
        (last.err = "" /\ Eq(Now, last.a, Len(tables)))

\* C8: entering the scope returns the same Database; nothing is committed
\* or rolled back inside the scope; on exit without an exception there is
\* one commit and no rollback, on exit with an exception one rollback, no
\* commit, and the exception reaches the caller.
C8_CommitOrRollbackOnExit ==
    /\ scope.pc = "in" => scope.handle = TheDb /\ db.commits = 0 /\ db.rollbacks = 0
    /\ scope.pc \in {"out", "collected"} =>
        /\ scope.handle = TheDb
        /\ scope.exc = "" =>
               db.commits = 1 /\ db.rollbacks = 0 /\ scope.propagated = ""
        /\ scope.exc # "" =>
               db.commits = 0 /\ db.rollbacks = 1 /\ scope.propagated = scope.exc
\* the scope was left by the DatabaseInputError of a write, which was
\* rolled back and reached the caller
C8_Witness ==
    /\ scope.pc = "out" /\ last.op = "setitem"
    /\ scope.exc = "DatabaseInputError" /\ scope.propagated = "DatabaseInputError"
    /\ db.rollbacks = 1

\* C9: a write db[name] = T whose table name or one of whose field names
\* is no valid identifier fails with DatabaseInputError, runs no drop,
\* create or insert, and leaves the store as it was.
C9_InvalidIdentifierBeforeAnyStatement ==
    [][(/\ last'.op = "setitem" /\ scope'.ops = scope.ops + 1
        /\ ~AllValid(fields(tables[last'.a]) \cup {last'.name})) =>
           /\ last'.err = "DatabaseInputError"
           /\ \A j \in 1..Len(db'.stmts) :
                  db'.stmts[j].kind \notin {"drop", "create", "insert"}
           /\ db'.store = db.store]_vars

\* C11: once the with-block has ended, normally or by an exception, the
\* connection has been closed, and it is never closed more than once.
C11_ClosedOnceAtScopeEnd ==
    /\ db.closed <= 1
    /\ scope.pc \in {"out", "collected"} => db.closed = 1

\* C13: a write db[name] = T with valid identifiers runs drop, create and
\* one insert per record of T, in that order, and returns; it never fails
\* with DatabaseWriteError; afterwards the table stored under name has the
\* columns of T's schema export and, row by row, the records of T, a field
\* that a record lacks being NULL.
C13_DropCreateInsertOverwrite ==
    (/\ last.op = "setitem" /\ scope.pc = "in"
     /\ AllValid(fields(tables[last.a]) \cup {last.name})) =>
        LET records == content(Now, last.a)
            writes == SelectSeq(db.stmts, LAMBDA x : x.kind \in {"drop", "create", "insert"})
        IN /\ last.err # "DatabaseWriteError"
           /\ last.err = ""
           /\ writes = [j \in 1..(2 + Len(records)) |->
                           [kind |-> IF j = 1 THEN "drop"
                                     ELSE IF j = 2 THEN "create" ELSE "insert",
                            table |-> last.name]]
           /\ last.name \in DOMAIN db.store
           /\ db.store[last.name].cols = getFields(tables[last.a])
           /\ Len(db.store[last.name].rows) = Len(records)
           /\ \A j \in 1..Len(records) :
                  LET row == db.store[last.name].rows[j]
                  IN /\ {c \in DOMAIN row : row[c] # None} = DOMAIN records[j]
                     /\ \A c \in DOMAIN records[j] : row[c] = records[j][c]

====
